---- MODULE Spec2Model ----
(***************************************************************************)
(* Radial clustering (src/radial_clustering.py): find_optimal_clustering   *)
(* and the boundary computation of visualize_clusters, as called by main.  *)
(*                                                                         *)
(* Points are lattice points.  Angles are kept in half degrees, so that    *)
(* the 45-degree directions, the integer offsets and the midpoints of two  *)
(* angles are all exact integers: Deg(d) is d degrees.  Only inputs whose  *)
(* directions from the central point are multiples of 45 degrees are       *)
(* drawn, and the arithmetic is exact (no rounding of the mean).           *)
(*                                                                         *)
(* sort_values is called with its default kind, for which the order of     *)
(* equal keys is not specified: every ascending order is a possible        *)
(* outcome.  An uncaught exception ends the run in pc = "crash".           *)
(***************************************************************************)
EXTENDS Integers, Sequences, FiniteSets, TLC

\* ------------------------------------------------------------------ bounds
MaxN == 5          \* longest participant list drawn from Grid
MaxK == 7          \* largest requested num_clusters
MaxManyN == 7      \* longest list drawn from Axis (requests beyond the label alphabet)
MaxTie == 3        \* most participants of a Grid list that share one angle

\* ------------------------------------------------------------------ constants
NumLabels == 6     \* len('ABCDEF')
NumOffsets == 360  \* range(0, 360, 1)
Rotation == 30     \* -boundary_angle + 30

ALPHABET == <<"A", "B", "C", "D", "E", "F">>
NaN == "NaN"

Grid == {<<0, 0>>, <<1, 0>>, <<0, 1>>, <<0, -1>>}
Axis == {<<0, -1>>, <<0, 0>>, <<0, 1>>}

VARIABLES
    points,                 \* pca_df: sequence of <<PC1, PC2>>, in input (index) order
    num_clusters,           \* the num_clusters argument
    pc,                     \* position of main
    initial_angle_offset,   \* loop variable of the scan
    Angle,                  \* temp_df['Angle'] of the last iteration
    sorted_index,           \* temp_df_sorted.index of the last iteration
    assignments,            \* the assignments list of the last iteration
    Cluster,                \* temp_df['Cluster'] of the last iteration
    cluster_order,          \* cluster_labels of visualize_clusters
    boundary_raw,           \* the boundary_angle values, in cluster_order
    boundary_angles         \* boundary_angles handed to the drawing loop

vars == <<points, num_clusters, pc, initial_angle_offset, Angle, sorted_index,
          assignments, Cluster, cluster_order, boundary_raw, boundary_angles>>

\* ------------------------------------------------------------------ arithmetic
Deg(d) == 2 * d

Min2(a, b) == IF a <= b THEN a ELSE b

SetMin(S) == CHOOSE m \in S : \A x \in S : m <= x
SetMax(S) == CHOOSE m \in S : \A x \in S : m >= x

Abs(x) == IF x < 0 THEN -x ELSE x

RECURSIVE SumCoord(_, _, _)
SumCoord(pts, c, n) == IF n = 0 THEN 0 ELSE pts[n][c] + SumCoord(pts, c, n - 1)

\* N * (coordinate - mean): the difference from the central point, scaled by
\* the positive factor N, which arctan2 does not see.
Diff(pts, c, i) == Len(pts) * pts[i][c] - SumCoord(pts, c, Len(pts))

\* np.degrees(np.arctan2(dy, dx)) on the directions that are multiples of 45 degrees
Exact(dy, dx) == dy = 0 \/ dx = 0 \/ Abs(dy) = Abs(dx)

arctan2(dy, dx) ==
    IF dy = 0 THEN (IF dx >= 0 THEN Deg(0) ELSE Deg(180))
    ELSE IF dx = 0 THEN (IF dy > 0 THEN Deg(90) ELSE -Deg(90))
    ELSE IF dy > 0 THEN (IF dx > 0 THEN Deg(45) ELSE Deg(135))
    ELSE (IF dx > 0 THEN -Deg(45) ELSE -Deg(135))

ExactInput(pts) == \A i \in 1..Len(pts) : Exact(Diff(pts, 2, i), Diff(pts, 1, i))

angles_degrees(pts, offset) ==
    [i \in 1..Len(pts) |->
        (-arctan2(Diff(pts, 2, i), Diff(pts, 1, i)) + Deg(offset) + Deg(360)) % Deg(360)]

\* ------------------------------------------------------------------ find_optimal_clustering
participants_per_cluster(N, K) == N \div K
clusters_with_extra(N, K) == N % K

\* list('ABCDEF')[:num_clusters]
cluster_labels(K) == SubSeq(ALPHABET, 1, Min2(K, NumLabels))

Repeat(x, n) == [j \in 1..n |-> x]

\* RunLength with the extra participants given to the last clusters
RunLength_ExtraLast(i, N, K) ==
    IF i >= K - clusters_with_extra(N, K)
    THEN participants_per_cluster(N, K) + 1
    ELSE participants_per_cluster(N, K)

\* length of the run appended for cluster i (0-based) by the loop over range(num_clusters)
RunLength(i, N, K) ==
    IF i < clusters_with_extra(N, K)
    THEN participants_per_cluster(N, K) + 1
    ELSE participants_per_cluster(N, K)

RECURSIVE AppendRuns(_, _, _)
AppendRuns(i, N, K) ==
    IF i >= K THEN <<>>
    ELSE Repeat(cluster_labels(K)[i + 1], RunLength(i, N, K)) \o AppendRuns(i + 1, N, K)

\* assignments after the slice assignments[:total_participants]
sliced_assignments(N, K) ==
    LET all == AppendRuns(0, N, K)
    IN  SubSeq(all, 1, Min2(Len(all), N))

\* sort_values('Angle') with the default kind: ascending by angle, the order of
\* equal angles is not specified.  The set of index orders it may produce.
RECURSIVE SortedOrders(_, _)
SortedOrders(S, ang) ==
    IF S = {} THEN {<<>>}
    ELSE LET m == SetMin({ang[i] : i \in S})
         IN  UNION {{<<i>> \o t : t \in SortedOrders(S \ {i}, ang)} :
                        i \in {j \in S : ang[j] = m}}

\* cluster_mapping with the last pair of the zip left out
cluster_mapping_OneShort(idx, labels) ==
    LET n == Min2(Len(idx), Len(labels)) - 1
    IN  [k \in {idx[j] : j \in 1..n} |->
            labels[SetMax({j \in 1..n : idx[j] = k})]]

\* dict(zip(temp_df_sorted.index, temp_df_sorted['Cluster'])): a later pair wins
cluster_mapping(idx, labels) ==
    LET n == Min2(Len(idx), Len(labels))
    IN  [k \in {idx[j] : j \in 1..n} |->
            labels[SetMax({j \in 1..n : idx[j] = k})]]

\* temp_df.index.map(cluster_mapping): a missing key gives NaN
index_map(N, mapping) ==
    [i \in 1..N |-> IF i \in DOMAIN mapping THEN mapping[i] ELSE NaN]

\* temp_df.groupby('Cluster').size(): the labels present, NaN dropped
cluster_sizes(Cl) ==
    [l \in {Cl[i] : i \in DOMAIN Cl} \ {NaN} |->
        Cardinality({i \in DOMAIN Cl : Cl[i] = l})]

\* the balance test; min() and max() of an empty Series are NaN and compare False
Balanced(Cl, N, K) ==
    LET sizes == cluster_sizes(Cl)
        counts == {sizes[l] : l \in DOMAIN sizes}
    IN  /\ counts # {}
        /\ SetMin(counts) >= participants_per_cluster(N, K)
        /\ SetMax(counts) <= participants_per_cluster(N, K) + 1

N == Len(points)

\* the most participants that share one angle at offset 0
Ties(pts) ==
    LET ang == angles_degrees(pts, 0)
    IN  SetMax({0} \cup {Cardinality({j \in 1..Len(pts) : ang[j] = ang[i]}) :
                            i \in 1..Len(pts)})

\* The inputs: a list of points whose angles are exact, and a group count.
\* Every list of at most MaxN points of Grid with at most MaxTie equal angles,
\* with every count up to MaxK; and, to have lists as long as the label
\* alphabet, every list of at most MaxManyN points of Axis with the counts
\* beyond the alphabet (these fail before any tie order is observed).
Init ==
    /\ \/ /\ \E n \in 0..MaxN : \E pts \in [1..n -> Grid] :
                 ExactInput(pts) /\ Ties(pts) <= MaxTie /\ points = pts
          /\ num_clusters \in 0..MaxK
       \/ /\ \E n \in 0..MaxManyN : \E pts \in [1..n -> Axis] : points = pts
          /\ num_clusters \in (NumLabels + 1)..MaxK
    /\ pc = "start"
    /\ initial_angle_offset = 0
    /\ Angle = <<>>
    /\ sorted_index = <<>>
    /\ assignments = <<>>
    /\ Cluster = <<>>
    /\ cluster_order = <<>>
    /\ boundary_raw = <<>>
    /\ boundary_angles = <<>>

\* total_participants // num_clusters with num_clusters = 0: ZeroDivisionError
DivideByZero ==
    /\ pc = "start"
    /\ num_clusters = 0
    /\ pc' = "crash"
    /\ UNCHANGED <<points, num_clusters, initial_angle_offset, Angle, sorted_index,
                   assignments, Cluster, cluster_order, boundary_raw, boundary_angles>>

Begin ==
    /\ pc = "start"
    /\ num_clusters # 0
    /\ pc' = "scan"
    /\ initial_angle_offset' = 0
    /\ UNCHANGED <<points, num_clusters, Angle, sorted_index, assignments, Cluster,
                   cluster_order, boundary_raw, boundary_angles>>

\* cluster_labels[i] with i = len(cluster_labels): IndexError, in the first
\* iteration, after the angles were computed and sorted (temp_df_sorted is a
\* local that is lost with the exception)
LabelIndexError ==
    /\ pc = "scan"
    /\ initial_angle_offset < NumOffsets
    /\ num_clusters > Len(cluster_labels(num_clusters))
    /\ pc' = "crash"
    /\ Angle' = angles_degrees(points, initial_angle_offset)
    /\ UNCHANGED <<points, num_clusters, initial_angle_offset, sorted_index,
                   assignments, Cluster, cluster_order, boundary_raw, boundary_angles>>

\* one iteration of the scan that gets as far as the balance test
TryOffset ==
    /\ pc = "scan"
    /\ initial_angle_offset < NumOffsets
    /\ num_clusters <= Len(cluster_labels(num_clusters))
    /\ Angle' = angles_degrees(points, initial_angle_offset)
    /\ sorted_index' \in SortedOrders(1..N, Angle')
    /\ assignments' = sliced_assignments(N, num_clusters)
    /\ IF Len(assignments') # N
       THEN /\ pc' = "crash"       \* ValueError: length of values does not match
            /\ UNCHANGED <<initial_angle_offset, Cluster>>
       ELSE /\ Cluster' = index_map(N, cluster_mapping(sorted_index', assignments'))
            /\ IF Balanced(Cluster', N, num_clusters)
               THEN /\ pc' = "returned"
                    /\ UNCHANGED initial_angle_offset
               ELSE /\ pc' = "scan"
                    /\ initial_angle_offset' = initial_angle_offset + 1
    /\ UNCHANGED <<points, num_clusters, cluster_order, boundary_raw, boundary_angles>>

\* the scan ran out: return None, None
Exhausted ==
    /\ pc = "scan"
    /\ initial_angle_offset = NumOffsets
    /\ pc' = "not_found"
    /\ UNCHANGED <<points, num_clusters, initial_angle_offset, Angle, sorted_index,
                   assignments, Cluster, cluster_order, boundary_raw, boundary_angles>>

\* ------------------------------------------------------------------ visualize_clusters
\* Series.unique(): the labels in order of first appearance, by row
unique(Cl) ==
    LET firsts == {i \in DOMAIN Cl : \A j \in 1..(i - 1) : Cl[j] # Cl[i]}
    IN  [p \in 1..Cardinality(firsts) |->
            Cl[CHOOSE i \in firsts : Cardinality({j \in firsts : j < i}) = p - 1]]

\* the third components of the triples <<key, position, element>> of E,
\* ascending by key and, for equal keys, by position
RECURSIVE Ascending(_)
Ascending(E) ==
    IF E = {} THEN <<>>
    ELSE LET e == CHOOSE e \in E : \A f \in E :
                      e[1] < f[1] \/ (e[1] = f[1] /\ e[2] <= f[2])
         IN  <<e[3]>> \o Ascending(E \ {e})

\* sorted(seq, key=...): ascending by key, stable (equal keys keep their order)
sorted(seq, key) ==
    Ascending({<<key[seq[j]], j, seq[j]>> : j \in 1..Len(seq)})

Members(Cl, l) == {i \in DOMAIN Cl : Cl[i] = l}
min_angle(Ang, Cl, l) == SetMin({Ang[i] : i \in Members(Cl, l)})
max_angle(Ang, Cl, l) == SetMax({Ang[i] : i \in Members(Cl, l)})

\* cluster_labels: the clusters present, by their smallest angle
labels_by_min_angle(Ang, Cl) ==
    LET u == unique(Cl)
    IN  sorted(u, [l \in {u[j] : j \in 1..Len(u)} |-> min_angle(Ang, Cl, l)])

\* boundary_angle without the reduction % 360
boundary_angle_NoMod(max_angle_current, min_angle_next) ==
    LET m == IF min_angle_next < max_angle_current
             THEN min_angle_next + Deg(360)
             ELSE min_angle_next
    IN  (max_angle_current + m) \div 2

\* the wrap-around test and (max_angle_current + min_angle_next) / 2 % 360
boundary_angle(max_angle_current, min_angle_next) ==
    LET m == IF min_angle_next < max_angle_current
             THEN min_angle_next + Deg(360)
             ELSE min_angle_next
    IN  ((max_angle_current + m) \div 2) % Deg(360)

\* boundary_angles.append(-boundary_angle + 30)
rotated(b) == -b + Deg(Rotation)

Boundaries ==
    /\ pc = "returned"
    /\ cluster_order' = labels_by_min_angle(Angle, Cluster)
    /\ boundary_raw' =
          [i \in 1..Len(cluster_order') |->
              boundary_angle(
                  max_angle(Angle, Cluster, cluster_order'[i]),
                  min_angle(Angle, Cluster,
                            cluster_order'[(i % Len(cluster_order')) + 1]))]
    /\ LET out == [i \in 1..Len(boundary_raw') |-> rotated(boundary_raw'[i])]
       IN  boundary_angles' = sorted(out, [v \in {out[i] : i \in 1..Len(out)} |-> v])
    /\ pc' = "boundaries"
    /\ UNCHANGED <<points, num_clusters, initial_angle_offset, Angle, sorted_index,
                   assignments, Cluster>>

Next ==
    \/ DivideByZero
    \/ Begin
    \/ LabelIndexError
    \/ TryOffset
    \/ Exhausted
    \/ Boundaries

Spec == Init /\ [][Next]_vars

\* ------------------------------------------------------------------ properties
K == num_clusters

\* find_optimal_clustering is over: it raised, returned None or returned a grouping
Finished == pc \in {"crash", "not_found", "returned", "boundaries"}
Returned == pc \in {"returned", "boundaries"}

\* position of a label in the alphabet; 0 for NaN
LabelIndex(l) == IF l = NaN THEN 0 ELSE CHOOSE j \in 1..NumLabels : ALPHABET[j] = l

\* the participants of the j-th requested group (1-based)
Group(j) == {i \in 1..N : Cluster[i] = ALPHABET[j]}

Floor == N \div K

\* C1: for 1 <= K <= N the partition returns an assignment whose K groups all
\* have floor(N/K) or floor(N/K)+1 members, the sizes sum to N, and at most
\* N mod K groups have the larger size.
C1_BalancedForAllK ==
    (K >= 1 /\ K <= N /\ Finished) =>
        /\ Returned
        /\ \A j \in 1..K : Cardinality(Group(j)) \in {Floor, Floor + 1}
        /\ Cardinality(UNION {Group(j) : j \in 1..K}) = N
        /\ Cardinality({j \in 1..K : Cardinality(Group(j)) = Floor + 1}) <= N % K

\* Within the label alphabet the same holds, and at offset 0 (checked beside
\* the claims; C1 and C10 fail only beyond the alphabet).
BalancedWithinAlphabet ==
    (K >= 1 /\ K <= N /\ K <= NumLabels /\ Finished) =>
        /\ Returned
        /\ initial_angle_offset = 0
        /\ \A j \in 1..K : Cardinality(Group(j)) \in {Floor, Floor + 1}
        /\ Cardinality(UNION {Group(j) : j \in 1..K}) = N
        /\ Cardinality({j \in 1..K : Cardinality(Group(j)) = Floor + 1}) <= N % K

\* C2: with K > N the partition reports a failure and never returns an
\* assignment (which would have empty groups); an exception is counted as a
\* reported failure here.
C2_TooManyGroupsRejected ==
    (K > N /\ Finished) => ~Returned

\* C3: with N = 0 or K = 0 the partition ends in a value-level failure: it
\* neither raises nor returns a grouping.
C3_EmptyInputIsFailureValue ==
    ((N = 0 \/ K = 0) /\ Finished) => pc = "not_found"

\* C4: in a returned assignment every participant of the input carries exactly
\* one of the K group labels: the groups partition the participants.
C4_EveryParticipantInOneGroup ==
    Returned =>
        /\ DOMAIN Cluster = 1..N
        /\ \A i \in 1..N : Cardinality({j \in 1..K : i \in Group(j)}) = 1

\* a returned two-group assignment of at least three participants, not all
\* at one angle, in which the sort moved a participant (its group is not the
\* one its input position alone would give)
C4_Witness ==
    /\ pc = "returned"
    /\ N >= 3
    /\ K = 2
    /\ Group(1) # {}
    /\ Group(2) # {}
    /\ \E i, j \in 1..N : Angle[i] # Angle[j]
    /\ \E i \in 1..N : sorted_index[i] # i

\* C5: the sort by angle is stable: participants with equal angles stand in
\* the sorted sequence in input order.
C5_SortIsStable ==
    Returned =>
        \A p, q \in 1..Len(sorted_index) :
            (p < q /\ Angle[sorted_index[p]] = Angle[sorted_index[q]])
                => sorted_index[p] < sorted_index[q]

\* C6 as stated: every angle of boundary_angles lies in [0, 360).
C6_OutputInRange ==
    pc = "boundaries" =>
        \A j \in 1..Len(boundary_angles) :
            boundary_angles[j] >= 0 /\ boundary_angles[j] < Deg(360)

\* C6 amended: every boundary before the rendering rotation lies in [0, 360);
\* boundary_angles holds, in ascending order, the values 30 - boundary, which
\* lie in (-330, 30].
C6_RawInRangeOutputRotated ==
    pc = "boundaries" =>
        /\ \A i \in 1..Len(boundary_raw) :
               boundary_raw[i] >= 0 /\ boundary_raw[i] < Deg(360)
        /\ Len(boundary_angles) = Len(boundary_raw)
        /\ \A j \in 1..Len(boundary_angles) :
               /\ boundary_angles[j] > Deg(30) - Deg(360)
               /\ boundary_angles[j] <= Deg(30)
               /\ j > 1 => boundary_angles[j - 1] <= boundary_angles[j]
               /\ Cardinality({i \in 1..Len(boundary_angles) :
                                   boundary_angles[i] = boundary_angles[j]})
                  = Cardinality({i \in 1..Len(boundary_raw) :
                                   Deg(30) - boundary_raw[i] = boundary_angles[j]})

\* a boundary across the 0/360 seam, handed on as a negative angle
C6_Witness ==
    /\ pc = "boundaries"
    /\ Len(boundary_angles) >= 2
    /\ \E j \in 1..Len(boundary_angles) : boundary_angles[j] < 0
    /\ \E i \in 1..Len(cluster_order) :
           min_angle(Angle, Cluster, cluster_order[(i % Len(cluster_order)) + 1])
               < max_angle(Angle, Cluster, cluster_order[i])

\* a strictly between lo and hi on the circle (hi may exceed 360)
StrictlyOnArc(a, lo, hi) ==
    \/ lo < a /\ a < hi
    \/ lo < a + Deg(360) /\ a + Deg(360) < hi

\* C7: for every pair (current, next) of cyclically adjacent groups the boundary
\* before rotation is ((max(current) + m) / 2) mod 360, with m = min(next) + 360
\* if min(next) < max(current) and min(next) otherwise, and no participant lies
\* strictly between max(current) and m on that arc.
C7_BoundaryInGap ==
    pc = "boundaries" =>
        \A i \in 1..Len(cluster_order) :
            LET maxc == max_angle(Angle, Cluster, cluster_order[i])
                minn == min_angle(Angle, Cluster,
                                  cluster_order[(i % Len(cluster_order)) + 1])
                m == IF minn < maxc THEN minn + Deg(360) ELSE minn
            IN  /\ boundary_raw[i] = ((maxc + m) \div 2) % Deg(360)
                /\ \A p \in 1..N : ~StrictlyOnArc(Angle[p], maxc, m)

\* C8: the boundary computation does not deliver a boundary sequence when one
\* of the K groups is empty.
C8_EmptyGroupRejected ==
    pc = "boundaries" => \A j \in 1..K : Group(j) # {}

\* C9: in a returned assignment the groups are contiguous runs of the
\* angle-sorted sequence, labelled in sorted order; run i (0-based) has
\* floor(N/K)+1 members when i < N mod K and floor(N/K) otherwise.
C9_ContiguousRuns ==
    Returned =>
        /\ Len(sorted_index) = N
        /\ {sorted_index[p] : p \in 1..N} = 1..N
        /\ \A p \in 1..(N - 1) :
               /\ Angle[sorted_index[p]] <= Angle[sorted_index[p + 1]]
               /\ LabelIndex(Cluster[sorted_index[p]])
                      <= LabelIndex(Cluster[sorted_index[p + 1]])
        /\ \A i \in 0..(K - 1) :
               Cardinality(Group(i + 1)) = Floor + (IF i < N % K THEN 1 ELSE 0)

\* a returned assignment with an uneven split over at least three groups, with
\* two participants at one angle and at least three different angles
C9_Witness ==
    /\ pc = "returned"
    /\ K >= 3
    /\ N > K
    /\ N % K # 0
    /\ \E i, j \in 1..N : i # j /\ Angle[i] = Angle[j]
    /\ Cardinality({Angle[i] : i \in 1..N}) >= 3

\* C10: for 1 <= K <= N the scan returns at its first iteration, offset 0.
C10_ReturnsAtOffsetZero ==
    (K >= 1 /\ K <= N /\ Finished) => (Returned /\ initial_angle_offset = 0)

====
